---- MODULE Spec2Model ----
(***************************************************************************)
(* Timeline / beat playback of the narrated video scenes.                  *)
(*                                                                         *)
(*   NarratedTimelineScene.construct  backend/templates/gen_video_template *)
(*                                    backend/3b1b_manimations/ai_gen_video*)
(*   BacktrackingCorePattern.construct                                     *)
(*                                    3b1b_manimations/backtracking_video1 *)
(*                                                                         *)
(*   main, tts_to_wav, concat_wavs    3b1b_manimations/ai_gen_audio        *)
(*                                    3b1b_manimations/backtracking_gen_aud*)
(*   resolveStarts                    the segment timing resolver of the   *)
(*                                    design (no counterpart in the code)  *)
(*                                                                         *)
(*   generate                         backend/api (POST /generate)         *)
(*   generate_lectures, run_command   backend/lectures_generator           *)
(*                                                                         *)
(* Spec / FairSpec run the playback, MutationSpec the playback with        *)
(* actions that change the list build_timeline returned, AudioSpec the     *)
(* audio script, ResolveSpec the resolver, GenSpec one request or direct   *)
(* call of the lecture pipeline, RaceSpec two requests at the same time;   *)
(* each leaves the other components idle.                                  *)
(*                                                                         *)
(* Times are seconds.  The code computes with floats; the model uses       *)
(* integers, and the frame counts below are multiples of the frame rates,  *)
(* so that nframes / framerate is exact.                                   *)
(***************************************************************************)
EXTENDS Integers, Sequences, FiniteSets, TLC

\* ------------------------------------------------------------------------
\* Bounds of the model
\* ------------------------------------------------------------------------
MaxBeats == 3

\* timestamps a build_timeline override may return (any float in the code)
Times == {-3, 1, 2, 4, 5, 130}

\* header fields of narration.wav
FrameCounts == {0, 20, 250}
FrameRates == {0, 1, 2}

\* ------------------------------------------------------------------------
\* Program constants
\* ------------------------------------------------------------------------
MAX_WAIT_CAP == 120

BACKTRACKING_CAP == 60

NUM_PLAYS == 27

Scenes == {"NarratedTimelineScene", "BacktrackingCorePattern"}

\* ------------------------------------------------------------------------
\* State
\* ------------------------------------------------------------------------
VARIABLES
    scene,          \* the Scene subclass being rendered
    narration,      \* the file at get_narration_path(): exists, header fields
    beats,          \* the list the scene's build_timeline returns
    pc,             \* position inside construct
    error,          \* the exception construct raised, "" if none
    dur,            \* local dur / narration_dur
    soundAttached,  \* add_sound has been called
    buildCalls,     \* number of calls of build_timeline
    timeline,       \* local timeline (sorted copy)
    idx,            \* position of the for loop in timeline
    t_prev,         \* local t_prev
    waits,          \* the arguments of all scene.wait calls so far
    invoked,        \* the actions called so far, in call order
    raised,         \* the action whose call raised, 0 if none
    plays           \* number of scene.play calls made by construct itself

vars == <<scene, narration, beats, pc, error, dur, soundAttached, buildCalls,
          timeline, idx, t_prev, waits, invoked, raised, plays>>

\* the audio script (ai_gen_audio.py, backtracking_gen_audio.py)
VARIABLES
    entry,          \* what is run: "main" or a direct call of "concat_wavs"
    apiKey,         \* DEEPGRAM_API_KEY is set
    nseg,           \* number of (text, filename) pairs of narration_segments()
    disk,           \* the segment WAV files in OUTPUT_DIR, by segment number
    outDir,         \* the destination's parent directory exists
    dest,           \* the file at out_path (narration.wav)
    fs0,            \* outDir and dest as they were before the run
    apc,            \* position inside main / concat_wavs
    aerror,         \* the exception raised, "" if none
    errName,        \* the file the format-mismatch message names, 0 if none
    wav_paths,      \* local wav_paths: segment numbers, in list order
    durations,      \* local durations
    base_params,    \* local base_params / params0
    rd,             \* position of the read loop in wav_paths
    frames,         \* local frames / frames_all
    wr,             \* position of the write loop in frames
    opened,         \* number of wave.open(..., "rb") calls
    requests,       \* number of requests.post calls
    total_duration  \* local total_duration / total

audioVars == <<entry, apiKey, nseg, disk, outDir, dest, fs0, apc, aerror, errName,
               wav_paths, durations, base_params, rd, frames, wr, opened,
               requests, total_duration>>

\* the segment timing resolver
VARIABLES
    rs_durations,   \* the ordered durations handed to resolveStarts
    rs_starts,      \* the result
    rs_pc           \* "call" before, "returned" after

resolveVars == <<rs_durations, rs_starts, rs_pc>>

\* the list object build_timeline handed to construct, as it is now
VARIABLES
    returned

listVars == <<returned>>

\* POST /generate and generate_lectures (api.py, lectures_generator.py);
\* the per-request variables are functions of the request number
VARIABLES
    req,                \* what each request or direct call was given
    tree,               \* which of the checked paths exist
    audio_script,       \* 3b1b_manimations/ai_gen_audio.py: who saved it, for which video
    video_script,       \* 3b1b_manimations/ai_gen_video.py: who saved it, for which video
    narration_wav,      \* assets/sounds/narration.wav: the script that wrote it
    gpc,                \* position inside generate / generate_lectures
    plan,               \* local plan: the video numbers the plan text mentions
    video_count,        \* local video_count
    video_num,          \* local video_num
    generated_videos,   \* local generated_videos
    gerror,             \* the exception raised, "" if none
    steps,              \* the steps made so far, in order
    proc,               \* what the running subprocess loaded
    response            \* the (body, status) pair generate returned

genVars == <<req, tree, audio_script, video_script, narration_wav, gpc, plan,
             video_count, video_num, generated_videos, gerror, steps, proc,
             response>>

allVars == <<vars, audioVars, resolveVars, listVars, genVars>>

\* ------------------------------------------------------------------------
\* Pure helpers
\* ------------------------------------------------------------------------
Min(a, b) == IF a <= b THEN a ELSE b

Max(a, b) == IF a >= b THEN a ELSE b

\* wf.getnframes() / float(wf.getframerate()); callers guard framerate # 0,
\* the code itself raises ZeroDivisionError there
wav_duration_seconds(path) == path.nframes \div path.framerate

\* safe_wait without the cap: scene.wait(max(0.0, seconds))
safe_wait_no_cap(seconds, cap) == Max(0, seconds)

\* safe_wait without the floor: scene.wait(min(seconds, cap))
safe_wait_no_floor(seconds, cap) == Min(seconds, cap)

\* the value safe_wait hands to scene.wait
safe_wait(seconds, cap) == Max(0, Min(seconds, cap))

\* Beat = Tuple[float, Callable]; the action is identified by its position
\* in the list build_timeline returns
Beat(t, a) == [t |-> t, action |-> a]

\* an unstable insertion: b goes in front of the beats with an equal key
RECURSIVE InsertUnstable(_, _)
InsertUnstable(s, b) ==
    IF s = <<>> THEN <<b>>
    ELSE IF s[Len(s)].t < b.t THEN Append(s, b)
    ELSE Append(InsertUnstable(SubSeq(s, 1, Len(s) - 1), b), s[Len(s)])

\* an insertion keyed by timestamp alone: a beat with a known key is dropped
RECURSIVE InsertDedup(_, _)
InsertDedup(s, b) ==
    IF s = <<>> THEN <<b>>
    ELSE IF s[Len(s)].t = b.t THEN s
    ELSE IF s[Len(s)].t < b.t THEN Append(s, b)
    ELSE Append(InsertDedup(SubSeq(s, 1, Len(s) - 1), b), s[Len(s)])

\* insert beat b into the sorted list s behind every beat whose key is <= b's
RECURSIVE InsertStable(_, _)
InsertStable(s, b) ==
    IF s = <<>> THEN <<b>>
    ELSE IF s[Len(s)].t <= b.t THEN Append(s, b)
    ELSE Append(InsertStable(SubSeq(s, 1, Len(s) - 1), b), s[Len(s)])

\* the list used as build_timeline returned it, without sorting
sorted_not(s) == s

\* sorted(list, key=lambda x: x[0]): ascending by timestamp, stable
RECURSIVE sorted(_)
sorted(s) ==
    IF s = <<>> THEN <<>>
    ELSE InsertStable(sorted(SubSeq(s, 1, Len(s) - 1)), s[Len(s)])

\* the lists a build_timeline override can return
Schedules ==
    UNION { { [i \in 1..n |-> Beat(f[i], i)] : f \in [1..n -> Times] } : n \in 0..MaxBeats }

NarrationFiles ==
    { [exists |-> FALSE, nframes |-> 0, framerate |-> 0] } \cup
    { [exists |-> TRUE, nframes |-> f, framerate |-> r] : f \in FrameCounts, r \in FrameRates }

\* ------------------------------------------------------------------------
\* Player states of the design
\* ------------------------------------------------------------------------
Idle == pc = "Idle"

Running == pc \in {"add_sound", "build", "loop", "waiting", "call", "acting",
                   "play", "final", "final_waiting"}

Done == pc = "Done"

Failed == pc = "Failed"

\* ------------------------------------------------------------------------
\* Audio script: data
\* ------------------------------------------------------------------------
MaxWavs == 3

\* (nchannels, sampwidth, framerate) of the WAV files a provider may return
WavFormats ==
    { [nchannels |-> 1, sampwidth |-> 2, framerate |-> 2],
      [nchannels |-> 1, sampwidth |-> 2, framerate |-> 1],
      [nchannels |-> 2, sampwidth |-> 2, framerate |-> 2],
      [nchannels |-> 1, sampwidth |-> 2, framerate |-> 0] }

SegFrameCounts == {2, 4}

\* a WAV file as wave.open reads it: its header fields
WavFiles ==
    { [nchannels |-> m.nchannels, sampwidth |-> m.sampwidth,
       framerate |-> m.framerate, nframes |-> c] : m \in WavFormats, c \in SegFrameCounts }

\* w.getparams()[:4]: (nchannels, sampwidth, framerate, nframes)
getparams4(w) == <<w.nchannels, w.sampwidth, w.framerate, w.nframes>>

\* the sample frames of segment file number p: frame c of file p is <<p, c>>
readframes(p) == [c \in 1..disk[p].nframes |-> <<p, c>>]

NoFile ==
    [exists |-> FALSE, nchannels |-> 0, sampwidth |-> 0, framerate |-> 0, frames |-> <<>>]

\* a narration.wav left by an earlier run
OldFile ==
    [exists |-> TRUE, nchannels |-> 1, sampwidth |-> 2, framerate |-> 2,
     frames |-> << <<0, 1>>, <<0, 2>> >>]

\* parent directory and destination before the run
InitialStores ==
    { [dir |-> FALSE, file |-> NoFile], [dir |-> TRUE, file |-> NoFile],
      [dir |-> TRUE, file |-> OldFile] }

\* the audio script is not run
AudioOff ==
    /\ entry = "none"
    /\ apiKey = FALSE
    /\ nseg = 0
    /\ disk = <<>>
    /\ outDir = FALSE
    /\ dest = NoFile
    /\ fs0 = [dir |-> FALSE, file |-> NoFile]
    /\ apc = "off"
    /\ aerror = ""
    /\ errName = 0
    /\ wav_paths = <<>>
    /\ durations = <<>>
    /\ base_params = <<>>
    /\ rd = 1
    /\ frames = <<>>
    /\ wr = 1
    /\ opened = 0
    /\ requests = 0
    /\ total_duration = 0

\* ------------------------------------------------------------------------
\* Segment timing resolver: data
\* ------------------------------------------------------------------------
MaxDurations == 3

\* segment durations, in half seconds
DurationValues == {0, 2, 4, 7}

\* the resolver is not called
ResolveOff ==
    /\ rs_durations = <<>>
    /\ rs_starts = <<>>
    /\ rs_pc = "off"

\* ------------------------------------------------------------------------
\* Lecture pipeline: data
\* ------------------------------------------------------------------------
MaxVideos == 2

\* the requests in flight
Reqs == {1, 2}

\* a file as an earlier run left it: saved by no request of this run
NoTag == <<0, 0>>

NoRequest ==
    [via |-> "none", well_formed |-> TRUE, user_prompt |-> FALSE,
     source_text |-> FALSE, source_pdf_path |-> FALSE, max_kind |-> "none",
     max_videos |-> 0]

NoResponse == [status |-> 0, success |-> FALSE, count |-> 0]

NoProcess == [script |-> NoTag, wav |-> NoTag]

\* no request is made
GenOff ==
    /\ req = [r \in Reqs |-> NoRequest]
    /\ tree = [pdf |-> FALSE, audio_template |-> FALSE, video_template |-> FALSE,
               manimations |-> FALSE]
    /\ audio_script = NoTag
    /\ video_script = NoTag
    /\ narration_wav = NoTag
    /\ gpc = [r \in Reqs |-> "off"]
    /\ plan = [r \in Reqs |-> {}]
    /\ video_count = [r \in Reqs |-> 0]
    /\ video_num = [r \in Reqs |-> 0]
    /\ generated_videos = [r \in Reqs |-> <<>>]
    /\ gerror = [r \in Reqs |-> ""]
    /\ steps = [r \in Reqs |-> <<>>]
    /\ proc = [r \in Reqs |-> NoProcess]
    /\ response = [r \in Reqs |-> NoResponse]

\* ------------------------------------------------------------------------
\* Init: a scene object before construct runs
\* ------------------------------------------------------------------------
Init ==
    /\ scene \in Scenes
    /\ narration \in NarrationFiles
    /\ beats \in IF scene = "NarratedTimelineScene" THEN Schedules ELSE {<<>>}
    /\ pc = "Idle"
    /\ error = ""
    /\ dur = 0
    /\ soundAttached = FALSE
    /\ buildCalls = 0
    /\ timeline = <<>>
    /\ idx = 1
    /\ t_prev = 0
    /\ waits = <<>>
    /\ invoked = <<>>
    /\ raised = 0
    /\ plays = 0
    /\ returned = <<>>
    /\ AudioOff
    /\ ResolveOff
    /\ GenOff

\* ------------------------------------------------------------------------
\* construct, step by step
\* ------------------------------------------------------------------------
\* if not narration.exists(): raise RuntimeError("Missing ...")
ConstructMissing ==
    /\ pc = "Idle"
    /\ ~narration.exists
    /\ pc' = "Failed"
    /\ error' = "MissingNarration"
    /\ UNCHANGED <<scene, narration, beats, dur, soundAttached, buildCalls,
                   timeline, idx, t_prev, waits, invoked, raised, plays>>
    /\ UNCHANGED <<audioVars, resolveVars, listVars, genVars>>

\* construct without the existence check
ConstructUnchecked ==
    /\ pc = "Idle"
    /\ pc' = "probe"
    /\ UNCHANGED <<scene, narration, beats, error, dur, soundAttached, buildCalls,
                   timeline, idx, t_prev, waits, invoked, raised, plays>>
    /\ UNCHANGED <<audioVars, resolveVars, listVars, genVars>>

\* narration exists: fall through to the duration probe
ConstructFound ==
    /\ pc = "Idle"
    /\ narration.exists
    /\ pc' = "probe"
    /\ UNCHANGED <<scene, narration, beats, error, dur, soundAttached, buildCalls,
                   timeline, idx, t_prev, waits, invoked, raised, plays>>
    /\ UNCHANGED <<audioVars, resolveVars, listVars, genVars>>

\* dur = wav_duration_seconds(narration), header with frame rate 0
ProbeZeroRate ==
    /\ pc = "probe"
    /\ narration.framerate = 0
    /\ pc' = "Failed"
    /\ error' = "ZeroDivisionError"
    /\ UNCHANGED <<scene, narration, beats, dur, soundAttached, buildCalls,
                   timeline, idx, t_prev, waits, invoked, raised, plays>>
    /\ UNCHANGED <<audioVars, resolveVars, listVars, genVars>>

\* dur = wav_duration_seconds(narration)
ProbeDuration ==
    /\ pc = "probe"
    /\ narration.framerate # 0
    /\ dur' = wav_duration_seconds(narration)
    /\ pc' = "add_sound"
    /\ UNCHANGED <<scene, narration, beats, error, soundAttached, buildCalls,
                   timeline, idx, t_prev, waits, invoked, raised, plays>>
    /\ UNCHANGED <<audioVars, resolveVars, listVars, genVars>>

\* self.add_sound(str(narration), time_offset=0)
AddSound ==
    /\ pc = "add_sound"
    /\ soundAttached' = TRUE
    /\ pc' = IF scene = "NarratedTimelineScene" THEN "build" ELSE "play"
    /\ UNCHANGED <<scene, narration, beats, error, dur, buildCalls,
                   timeline, idx, t_prev, waits, invoked, raised, plays>>
    /\ UNCHANGED <<audioVars, resolveVars, listVars, genVars>>

\* timeline = sorted(self.build_timeline(), key=lambda x: x[0]); t_prev = 0.0
BuildTimeline ==
    /\ pc = "build"
    /\ buildCalls' = buildCalls + 1
    /\ returned' = beats
    /\ timeline' = sorted(beats)
    /\ t_prev' = 0
    /\ idx' = 1
    /\ pc' = "loop"
    /\ UNCHANGED <<scene, narration, beats, error, dur, soundAttached,
                   waits, invoked, raised, plays>>
    /\ UNCHANGED <<audioVars, resolveVars, genVars>>

\* the loop body calling action() without waiting for its timestamp first
BeginWaitActionFirst ==
    /\ pc = "loop"
    /\ idx <= Len(timeline)
    /\ invoked' = Append(invoked, timeline[idx].action)
    /\ pc' = "acting"
    /\ UNCHANGED <<scene, narration, beats, error, dur, soundAttached, buildCalls,
                   timeline, idx, t_prev, waits, raised, plays>>
    /\ UNCHANGED <<audioVars, resolveVars, listVars, genVars>>

\* for t, action in timeline: safe_wait(self, t - t_prev)   -- wait begins
BeginWait ==
    /\ pc = "loop"
    /\ idx <= Len(timeline)
    /\ waits' = Append(waits, safe_wait(timeline[idx].t - t_prev, MAX_WAIT_CAP))
    /\ pc' = "waiting"
    /\ UNCHANGED <<scene, narration, beats, error, dur, soundAttached, buildCalls,
                   timeline, idx, t_prev, invoked, raised, plays>>
    /\ UNCHANGED <<audioVars, resolveVars, listVars, genVars>>

\* scene.wait returns
EndWait ==
    /\ pc = "waiting"
    /\ pc' = "call"
    /\ UNCHANGED <<scene, narration, beats, error, dur, soundAttached, buildCalls,
                   timeline, idx, t_prev, waits, invoked, raised, plays>>
    /\ UNCHANGED <<audioVars, resolveVars, listVars, genVars>>

\* action()  -- the call is made
BeginAction ==
    /\ pc = "call"
    /\ invoked' = Append(invoked, timeline[idx].action)
    /\ pc' = "acting"
    /\ UNCHANGED <<scene, narration, beats, error, dur, soundAttached, buildCalls,
                   timeline, idx, t_prev, waits, raised, plays>>
    /\ UNCHANGED <<audioVars, resolveVars, listVars, genVars>>

\* the loop body without "t_prev = t"
ActionReturnsKeepsPrev ==
    /\ pc = "acting"
    /\ idx' = idx + 1
    /\ pc' = "loop"
    /\ UNCHANGED <<scene, narration, beats, error, dur, soundAttached, buildCalls,
                   timeline, t_prev, waits, invoked, raised, plays>>
    /\ UNCHANGED <<audioVars, resolveVars, listVars, genVars>>

\* a loop that reads the live list again after every action
ActionReturnsRereads ==
    /\ pc = "acting"
    /\ timeline' = sorted(returned)
    /\ t_prev' = timeline[idx].t
    /\ idx' = idx + 1
    /\ pc' = "loop"
    /\ UNCHANGED <<scene, narration, beats, error, dur, soundAttached, buildCalls,
                   waits, invoked, raised, plays>>
    /\ UNCHANGED <<audioVars, resolveVars, listVars, genVars>>

\* action() returns; t_prev = t; next iteration
ActionReturns ==
    /\ pc = "acting"
    /\ t_prev' = timeline[idx].t
    /\ idx' = idx + 1
    /\ pc' = "loop"
    /\ UNCHANGED <<scene, narration, beats, error, dur, soundAttached, buildCalls,
                   timeline, waits, invoked, raised, plays>>
    /\ UNCHANGED <<audioVars, resolveVars, listVars, genVars>>

\* action() raises inside a try/except that carries on with the next beat
ActionRaisesSwallowed ==
    /\ pc = "acting"
    /\ raised' = timeline[idx].action
    /\ t_prev' = timeline[idx].t
    /\ idx' = idx + 1
    /\ pc' = "loop"
    /\ UNCHANGED <<scene, narration, beats, error, dur, soundAttached, buildCalls,
                   timeline, waits, invoked, plays>>
    /\ UNCHANGED <<audioVars, resolveVars, listVars, genVars>>

\* action() raises: nothing in construct catches it
ActionRaises ==
    /\ pc = "acting"
    /\ raised' = timeline[idx].action
    /\ error' = "ActionFailure"
    /\ pc' = "Failed"
    /\ UNCHANGED <<scene, narration, beats, dur, soundAttached, buildCalls,
                   timeline, idx, t_prev, waits, invoked, plays>>
    /\ UNCHANGED <<audioVars, resolveVars, listVars, genVars>>

\* the trailing wait with its operands swapped: safe_wait(self, t_prev - dur)
BeginFinalWaitSwapped ==
    /\ pc = "loop"
    /\ idx > Len(timeline)
    /\ waits' = Append(waits, safe_wait(t_prev - dur, MAX_WAIT_CAP))
    /\ pc' = "final_waiting"
    /\ UNCHANGED <<scene, narration, beats, error, dur, soundAttached, buildCalls,
                   timeline, idx, t_prev, invoked, raised, plays>>
    /\ UNCHANGED <<audioVars, resolveVars, listVars, genVars>>

\* the trailing wait behind a loop exit test that is off by one
BeginFinalWaitOffByOne ==
    /\ pc = "loop"
    /\ idx > Len(timeline) + 1
    /\ waits' = Append(waits, safe_wait(dur - t_prev, MAX_WAIT_CAP))
    /\ pc' = "final_waiting"
    /\ UNCHANGED <<scene, narration, beats, error, dur, soundAttached, buildCalls,
                   timeline, idx, t_prev, invoked, raised, plays>>
    /\ UNCHANGED <<audioVars, resolveVars, listVars, genVars>>

\* after the loop: safe_wait(self, dur - t_prev)   -- wait begins
BeginFinalWait ==
    /\ pc = "loop"
    /\ idx > Len(timeline)
    /\ waits' = Append(waits, safe_wait(dur - t_prev, MAX_WAIT_CAP))
    /\ pc' = "final_waiting"
    /\ UNCHANGED <<scene, narration, beats, error, dur, soundAttached, buildCalls,
                   timeline, idx, t_prev, invoked, raised, plays>>
    /\ UNCHANGED <<audioVars, resolveVars, listVars, genVars>>

\* BacktrackingCorePattern: the fixed run of self.play(...) calls
PlayAnimations ==
    /\ pc = "play"
    /\ plays' = plays + NUM_PLAYS
    /\ pc' = "final"
    /\ UNCHANGED <<scene, narration, beats, error, dur, soundAttached, buildCalls,
                   timeline, idx, t_prev, waits, invoked, raised>>
    /\ UNCHANGED <<audioVars, resolveVars, listVars, genVars>>

\* BacktrackingCorePattern: safe_wait(self, narration_dur), cap 60
BeginNarrationWait ==
    /\ pc = "final"
    /\ waits' = Append(waits, safe_wait(dur, BACKTRACKING_CAP))
    /\ pc' = "final_waiting"
    /\ UNCHANGED <<scene, narration, beats, error, dur, soundAttached, buildCalls,
                   timeline, idx, t_prev, invoked, raised, plays>>
    /\ UNCHANGED <<audioVars, resolveVars, listVars, genVars>>

\* the last scene.wait returns; construct returns
EndFinalWait ==
    /\ pc = "final_waiting"
    /\ pc' = "Done"
    /\ UNCHANGED <<scene, narration, beats, error, dur, soundAttached, buildCalls,
                   timeline, idx, t_prev, waits, invoked, raised, plays>>
    /\ UNCHANGED <<audioVars, resolveVars, listVars, genVars>>

Next ==
    \/ ConstructMissing
    \/ ConstructFound
    \/ ProbeZeroRate
    \/ ProbeDuration
    \/ AddSound
    \/ BuildTimeline
    \/ BeginWait
    \/ EndWait
    \/ BeginAction
    \/ ActionReturns
    \/ ActionRaises
    \/ BeginFinalWait
    \/ PlayAnimations
    \/ BeginNarrationWait
    \/ EndFinalWait

Spec == Init /\ [][Next]_vars

\* the list with its entries in reverse order
RECURSIVE reversed(_)
reversed(s) == IF s = <<>> THEN <<>> ELSE Append(reversed(Tail(s)), Head(s))

\* what a running action can make of the list build_timeline returned:
\* reorder it, remove entries, add one
ListMutations(s) ==
    {reversed(s), <<>>, Append(s, Beat(1, Len(s) + 1))}
        \cup (IF s = <<>> THEN {} ELSE {Tail(s)})

\* the running action changes the list object build_timeline returned
\* (at most one change per run)
ActionMutatesList ==
    /\ pc = "acting"
    /\ returned = beats
    /\ \E s \in ListMutations(returned) : s # returned /\ returned' = s
    /\ UNCHANGED <<vars, audioVars, resolveVars, genVars>>

MutationNext ==
    \/ Next
    \/ ActionMutatesList

\* playback with actions that keep the returned list and change it
MutationSpec == Init /\ [][MutationNext]_<<vars, listVars>>

\* construct is one sequential call: the renderer's wait returns after the
\* (finite) time it was given, and an action either returns or raises
FairSpec == Spec /\ WF_vars(Next)

TypeOK ==
    /\ scene \in Scenes
    /\ narration \in NarrationFiles
    /\ pc \in {"Idle", "probe", "add_sound", "build", "loop", "waiting", "call",
               "acting", "play", "final", "final_waiting", "Done", "Failed"}
    /\ error \in {"", "MissingNarration", "ZeroDivisionError", "ActionFailure"}
    /\ idx \in 1..(Len(timeline) + 1)
    /\ raised \in 0..Len(beats)

\* ------------------------------------------------------------------------
\* Audio script: main, tts_to_wav, concat_wavs, step by step
\* ------------------------------------------------------------------------
\* the playback is not run
PlaybackOff ==
    /\ scene = "NarratedTimelineScene"
    /\ narration = [exists |-> FALSE, nframes |-> 0, framerate |-> 0]
    /\ beats = <<>>
    /\ pc = "Idle"
    /\ error = ""
    /\ dur = 0
    /\ soundAttached = FALSE
    /\ buildCalls = 0
    /\ timeline = <<>>
    /\ idx = 1
    /\ t_prev = 0
    /\ waits = <<>>
    /\ invoked = <<>>
    /\ raised = 0
    /\ plays = 0
    /\ returned = <<>>

\* either main() is run, or concat_wavs(wav_paths, out_path) is called on
\* files that exist
AudioInit ==
    /\ PlaybackOff
    /\ ResolveOff
    /\ GenOff
    /\ entry \in {"main", "concat_wavs"}
    /\ fs0 \in InitialStores
    /\ outDir = fs0.dir
    /\ dest = fs0.file
    /\ IF entry = "main"
       THEN /\ apiKey \in BOOLEAN
            /\ nseg \in 0..MaxWavs
            /\ disk = <<>>
            /\ wav_paths = <<>>
            /\ apc = "main"
       ELSE /\ apiKey = FALSE
            /\ nseg = 0
            /\ disk \in UNION { [1..n -> WavFiles] : n \in 0..MaxWavs }
            /\ wav_paths = [p \in 1..Len(disk) |-> p]
            /\ apc = "concat"
    /\ aerror = ""
    /\ errName = 0
    /\ durations = <<>>
    /\ base_params = <<>>
    /\ rd = 1
    /\ frames = <<>>
    /\ wr = 1
    /\ opened = 0
    /\ requests = 0
    /\ total_duration = 0

\* main: OUTPUT_DIR.mkdir(parents=True, exist_ok=True)
MainStart ==
    /\ apc = "main"
    /\ outDir' = TRUE
    /\ apc' = "tts"
    /\ UNCHANGED <<entry, apiKey, nseg, disk, dest, fs0, aerror, errName,
                   wav_paths, durations, base_params, rd, frames, wr, opened,
                   requests, total_duration>>
    /\ UNCHANGED <<vars, resolveVars, listVars, genVars>>

\* tts_to_wav: DEEPGRAM_API_KEY is not set
TtsMissingKey ==
    /\ apc = "tts"
    /\ Len(wav_paths) < nseg
    /\ ~apiKey
    /\ aerror' = "MissingApiKey"
    /\ apc' = "Failed"
    /\ UNCHANGED <<entry, apiKey, nseg, disk, outDir, dest, fs0, errName,
                   wav_paths, durations, base_params, rd, frames, wr, opened,
                   requests, total_duration>>
    /\ UNCHANGED <<vars, resolveVars, listVars, genVars>>

\* tts_to_wav sending the request a second time when the first one fails
TtsRequestFailsRetried ==
    /\ apc = "tts"
    /\ Len(wav_paths) < nseg
    /\ apiKey
    /\ requests' = requests + 2
    /\ aerror' = "ProviderError"
    /\ apc' = "Failed"
    /\ UNCHANGED <<entry, apiKey, nseg, disk, outDir, dest, fs0, errName,
                   wav_paths, durations, base_params, rd, frames, wr, opened,
                   total_duration>>
    /\ UNCHANGED <<vars, resolveVars, listVars, genVars>>

\* tts_to_wav: requests.post / raise_for_status raises
TtsRequestFails ==
    /\ apc = "tts"
    /\ Len(wav_paths) < nseg
    /\ apiKey
    /\ requests' = requests + 1
    /\ aerror' = "ProviderError"
    /\ apc' = "Failed"
    /\ UNCHANGED <<entry, apiKey, nseg, disk, outDir, dest, fs0, errName,
                   wav_paths, durations, base_params, rd, frames, wr, opened,
                   total_duration>>
    /\ UNCHANGED <<vars, resolveVars, listVars, genVars>>

\* tts_to_wav: the request succeeds; out_path.write_bytes(response.content)
TtsRequestOk ==
    /\ apc = "tts"
    /\ Len(wav_paths) < nseg
    /\ apiKey
    /\ \E w \in WavFiles : disk' = Append(disk, w)
    /\ requests' = requests + 1
    /\ apc' = "tts_written"
    /\ UNCHANGED <<entry, apiKey, nseg, outDir, dest, fs0, aerror,
                   errName, wav_paths, durations, base_params, rd, frames,
                   wr, opened, total_duration>>
    /\ UNCHANGED <<vars, resolveVars, listVars, genVars>>

\* tts_to_wav: return wav_duration_seconds(out_path), header with frame rate 0
TtsDurationZeroRate ==
    /\ apc = "tts_written"
    /\ disk[Len(disk)].framerate = 0
    /\ aerror' = "ZeroDivisionError"
    /\ apc' = "Failed"
    /\ UNCHANGED <<entry, apiKey, nseg, disk, outDir, dest, fs0, errName,
                   wav_paths, durations, base_params, rd, frames, wr, opened,
                   requests, total_duration>>
    /\ UNCHANGED <<vars, resolveVars, listVars, genVars>>

\* dur = tts_to_wav(...); wav_paths.append(out_path); durations.append(dur)
TtsDuration ==
    /\ apc = "tts_written"
    /\ disk[Len(disk)].framerate # 0
    /\ durations' = Append(durations, wav_duration_seconds(disk[Len(disk)]))
    /\ wav_paths' = Append(wav_paths, Len(disk))
    /\ apc' = "tts"
    /\ UNCHANGED <<entry, apiKey, nseg, disk, outDir, dest, fs0, aerror,
                   errName, base_params, rd, frames, wr, opened, requests,
                   total_duration>>
    /\ UNCHANGED <<vars, resolveVars, listVars, genVars>>

\* main concatenating what it has as soon as one segment is there
MainConcatEarly ==
    /\ apc = "tts"
    /\ Len(wav_paths) >= Min(1, nseg)
    /\ apc' = "concat"
    /\ UNCHANGED <<entry, apiKey, nseg, disk, outDir, dest, fs0, aerror,
                   errName, wav_paths, durations, base_params, rd, frames,
                   wr, opened, requests, total_duration>>
    /\ UNCHANGED <<vars, resolveVars, listVars, genVars>>

\* main: concat_wavs(wav_paths, final_audio) is called
MainConcat ==
    /\ apc = "tts"
    /\ Len(wav_paths) = nseg
    /\ apc' = "concat"
    /\ UNCHANGED <<entry, apiKey, nseg, disk, outDir, dest, fs0, aerror,
                   errName, wav_paths, durations, base_params, rd, frames,
                   wr, opened, requests, total_duration>>
    /\ UNCHANGED <<vars, resolveVars, listVars, genVars>>

\* concat_wavs with the directory made before the emptiness test
ConcatEmptyAfterMkdir ==
    /\ apc = "concat"
    /\ wav_paths = <<>>
    /\ outDir' = TRUE
    /\ aerror' = "EmptyInput"
    /\ apc' = "Failed"
    /\ UNCHANGED <<entry, apiKey, nseg, disk, dest, fs0, errName, wav_paths,
                   durations, base_params, rd, frames, wr, opened, requests,
                   total_duration>>
    /\ UNCHANGED <<vars, resolveVars, listVars, genVars>>

\* if not wav_paths: raise ValueError(...)
ConcatEmpty ==
    /\ apc = "concat"
    /\ wav_paths = <<>>
    /\ aerror' = "EmptyInput"
    /\ apc' = "Failed"
    /\ UNCHANGED <<entry, apiKey, nseg, disk, outDir, dest, fs0, errName,
                   wav_paths, durations, base_params, rd, frames, wr, opened,
                   requests, total_duration>>
    /\ UNCHANGED <<vars, resolveVars, listVars, genVars>>

\* concat_wavs opening the destination for writing before it reads
ConcatOpenFirstStreaming ==
    /\ apc = "concat"
    /\ wav_paths # <<>>
    /\ base_params' = disk[wav_paths[1]]
    /\ opened' = opened + 1
    /\ rd' = 1
    /\ outDir' = TRUE
    /\ dest' = [exists |-> TRUE, nchannels |-> disk[wav_paths[1]].nchannels,
                sampwidth |-> disk[wav_paths[1]].sampwidth,
                framerate |-> disk[wav_paths[1]].framerate, frames |-> <<>>]
    /\ apc' = "read"
    /\ UNCHANGED <<entry, apiKey, nseg, disk, fs0, aerror, errName,
                   wav_paths, durations, frames, wr, requests,
                   total_duration>>
    /\ UNCHANGED <<vars, resolveVars, listVars, genVars>>

\* with wave.open(str(wav_paths[0]), "rb") as w0: base_params = w0.getparams()
ConcatOpenFirst ==
    /\ apc = "concat"
    /\ wav_paths # <<>>
    /\ base_params' = disk[wav_paths[1]]
    /\ opened' = opened + 1
    /\ rd' = 1
    /\ apc' = "read"
    /\ UNCHANGED <<entry, apiKey, nseg, disk, outDir, dest, fs0, aerror,
                   errName, wav_paths, durations, frames, wr, requests,
                   total_duration>>
    /\ UNCHANGED <<vars, resolveVars, listVars, genVars>>

\* if w.getparams()[:4] != base_params[:4]: raise RuntimeError(... p.name)
ConcatReadMismatch ==
    /\ apc = "read"
    /\ rd <= Len(wav_paths)
    /\ getparams4(disk[wav_paths[rd]]) # getparams4(base_params)
    /\ opened' = opened + 1
    /\ errName' = wav_paths[rd]
    /\ aerror' = "FormatMismatch"
    /\ apc' = "Failed"
    /\ UNCHANGED <<entry, apiKey, nseg, disk, outDir, dest, fs0, wav_paths,
                   durations, base_params, rd, frames, wr, requests,
                   total_duration>>
    /\ UNCHANGED <<vars, resolveVars, listVars, genVars>>

\* the read loop putting each file in front of the ones read before
ConcatReadReversed ==
    /\ apc = "read"
    /\ rd <= Len(wav_paths)
    /\ getparams4(disk[wav_paths[rd]]) = getparams4(base_params)
    /\ opened' = opened + 1
    /\ frames' = <<readframes(wav_paths[rd])>> \o frames
    /\ rd' = rd + 1
    /\ UNCHANGED <<entry, apiKey, nseg, disk, outDir, dest, fs0, apc, aerror,
                   errName, wav_paths, durations, base_params, wr, requests,
                   total_duration>>
    /\ UNCHANGED <<vars, resolveVars, listVars, genVars>>

\* the read loop reading one frame less than the file holds
ConcatReadShort ==
    /\ apc = "read"
    /\ rd <= Len(wav_paths)
    /\ getparams4(disk[wav_paths[rd]]) = getparams4(base_params)
    /\ opened' = opened + 1
    /\ frames' = Append(frames, SubSeq(readframes(wav_paths[rd]), 1, disk[wav_paths[rd]].nframes - 1))
    /\ rd' = rd + 1
    /\ UNCHANGED <<entry, apiKey, nseg, disk, outDir, dest, fs0, apc, aerror,
                   errName, wav_paths, durations, base_params, wr, requests,
                   total_duration>>
    /\ UNCHANGED <<vars, resolveVars, listVars, genVars>>

\* frames.append(w.readframes(w.getnframes()))
ConcatRead ==
    /\ apc = "read"
    /\ rd <= Len(wav_paths)
    /\ getparams4(disk[wav_paths[rd]]) = getparams4(base_params)
    /\ opened' = opened + 1
    /\ frames' = Append(frames, readframes(wav_paths[rd]))
    /\ rd' = rd + 1
    /\ UNCHANGED <<entry, apiKey, nseg, disk, outDir, dest, fs0, apc, aerror,
                   errName, wav_paths, durations, base_params, wr, requests,
                   total_duration>>
    /\ UNCHANGED <<vars, resolveVars, listVars, genVars>>

\* out_path.parent.mkdir(...); wave.open(str(out_path), "wb"); out.setparams(base_params)
ConcatOpenOut ==
    /\ apc = "read"
    /\ rd > Len(wav_paths)
    /\ outDir' = TRUE
    /\ dest' = [exists |-> TRUE, nchannels |-> base_params.nchannels,
                sampwidth |-> base_params.sampwidth,
                framerate |-> base_params.framerate, frames |-> <<>>]
    /\ wr' = 1
    /\ apc' = "write"
    /\ UNCHANGED <<entry, apiKey, nseg, disk, fs0, aerror, errName,
                   wav_paths, durations, base_params, rd, frames, opened,
                   requests, total_duration>>
    /\ UNCHANGED <<vars, resolveVars, listVars, genVars>>

\* for fr in frames: out.writeframes(fr)
ConcatWrite ==
    /\ apc = "write"
    /\ wr <= Len(frames)
    /\ dest' = [dest EXCEPT !.frames = @ \o frames[wr]]
    /\ wr' = wr + 1
    /\ UNCHANGED <<entry, apiKey, nseg, disk, outDir, fs0, apc, aerror,
                   errName, wav_paths, durations, base_params, rd, frames,
                   opened, requests, total_duration>>
    /\ UNCHANGED <<vars, resolveVars, listVars, genVars>>

\* the with block closes out (the header gets the frame count written);
\* concat_wavs returns
ConcatClose ==
    /\ apc = "write"
    /\ wr > Len(frames)
    /\ apc' = IF entry = "main" THEN "total" ELSE "Done"
    /\ UNCHANGED <<entry, apiKey, nseg, disk, outDir, dest, fs0, aerror,
                   errName, wav_paths, durations, base_params, rd, frames,
                   wr, opened, requests, total_duration>>
    /\ UNCHANGED <<vars, resolveVars, listVars, genVars>>

\* main: total_duration = wav_duration_seconds(final_audio)
MainTotal ==
    /\ apc = "total"
    /\ total_duration' = wav_duration_seconds([nframes |-> Len(dest.frames), framerate |-> dest.framerate])
    /\ apc' = "Done"
    /\ UNCHANGED <<entry, apiKey, nseg, disk, outDir, dest, fs0, aerror,
                   errName, wav_paths, durations, base_params, rd, frames,
                   wr, opened, requests>>
    /\ UNCHANGED <<vars, resolveVars, listVars, genVars>>

AudioNext ==
    \/ MainStart
    \/ TtsMissingKey
    \/ TtsRequestFails
    \/ TtsRequestOk
    \/ TtsDurationZeroRate
    \/ TtsDuration
    \/ MainConcat
    \/ ConcatEmpty
    \/ ConcatOpenFirst
    \/ ConcatReadMismatch
    \/ ConcatRead
    \/ ConcatOpenOut
    \/ ConcatWrite
    \/ ConcatClose
    \/ MainTotal

AudioSpec == AudioInit /\ [][AudioNext]_allVars


\* ------------------------------------------------------------------------
\* Segment timing resolver
\* ------------------------------------------------------------------------
\* start offsets that count each segment's own duration in (cumulative ends)
RECURSIVE resolveStartsInclusive(_)
resolveStartsInclusive(d) ==
    IF d = <<>> THEN <<>>
    ELSE IF Len(d) = 1 THEN <<d[1]>>
    ELSE LET prev == resolveStartsInclusive(SubSeq(d, 1, Len(d) - 1))
         IN  Append(prev, prev[Len(prev)] + d[Len(d)])

\* starts[0] = 0; starts[i] = starts[i-1] + durations[i-1]; empty for empty
RECURSIVE resolveStarts(_)
resolveStarts(d) ==
    IF d = <<>> THEN <<>>
    ELSE IF Len(d) = 1 THEN <<0>>
    ELSE LET prev == resolveStarts(SubSeq(d, 1, Len(d) - 1))
         IN  Append(prev, prev[Len(prev)] + d[Len(d) - 1])

ResolveInit ==
    /\ PlaybackOff
    /\ AudioOff
    /\ GenOff
    /\ rs_durations \in UNION { [1..n -> DurationValues] : n \in 0..MaxDurations }
    /\ rs_starts = <<>>
    /\ rs_pc = "call"

\* starts = resolveStarts(orderedDurations)
ResolveCall ==
    /\ rs_pc = "call"
    /\ rs_starts' = resolveStarts(rs_durations)
    /\ rs_pc' = "returned"
    /\ UNCHANGED rs_durations
    /\ UNCHANGED <<vars, audioVars, listVars, genVars>>

ResolveNext == ResolveCall

ResolveSpec == ResolveInit /\ [][ResolveNext]_allVars

\* ------------------------------------------------------------------------
\* POST /generate and generate_lectures
\* ------------------------------------------------------------------------
\* one entry of the step log
Step(n, name, ok) == [video |-> n, step |-> name, ok |-> ok]

\* jsonify({"success": ..., "count": ...}), status
Response(status, success, count) ==
    [status |-> status, success |-> success, count |-> count]

\* the source_pdf_path generate_lectures is called with: generate passes None
\* for a JSON body and the hardcoded example PDF for a form
source_pdf_path(rq) ==
    IF rq.via = "json" THEN FALSE
    ELSE IF rq.via = "form" THEN TRUE
    ELSE rq.source_pdf_path

\* the input checks without the test for a missing source
validate_inputs_no_source(rq, tr) ==
    IF source_pdf_path(rq) /\ ~tr.pdf THEN "FileNotFoundError"
    ELSE IF ~tr.audio_template THEN "FileNotFoundError"
    ELSE IF ~tr.video_template THEN "FileNotFoundError"
    ELSE IF ~tr.manimations THEN "FileNotFoundError"
    ELSE ""

\* generate_lectures, "Validate inputs": the exception raised, "" if none
validate_inputs(rq, tr) ==
    IF ~source_pdf_path(rq) /\ ~rq.source_text THEN "ValueError"
    ELSE IF source_pdf_path(rq) /\ ~tr.pdf THEN "FileNotFoundError"
    ELSE IF ~tr.audio_template THEN "FileNotFoundError"
    ELSE IF ~tr.video_template THEN "FileNotFoundError"
    ELSE IF ~tr.manimations THEN "FileNotFoundError"
    ELSE ""

\* parse_video_count on a plan with matches: max(video_numbers)
parse_video_count(p) == CHOOSE m \in p : \A x \in p : x <= m

\* the count left as parsed, whatever max_videos says
limit_video_count_ignored(count, rq) == count

\* if max_videos is not None and video_count > max_videos: video_count = max_videos
limit_video_count(count, rq) ==
    IF rq.max_kind = "int" /\ count > rq.max_videos THEN rq.max_videos ELSE count

\* every exception answered with 500
status_of_internal(e) == 500

\* the status of the except clause that catches e
status_of(e) ==
    IF e = "FileNotFoundError" THEN 404
    ELSE IF e = "ValueError" THEN 400
    ELSE IF e = "RuntimeError" THEN 500
    ELSE 500

\* the sets of N of the "Video N" occurrences a plan text can have
PlanTexts ==
    {{}} \cup { 1..n : n \in 1..MaxVideos } \cup { {n} : n \in 0..MaxVideos }

\* max_videos: absent, or an integer
MaxArgs ==
    { [kind |-> "none", n |-> 0] } \cup { [kind |-> "int", n |-> x] : x \in -1..MaxVideos }

\* direct calls of generate_lectures
DirectCalls ==
    { [via |-> "direct", well_formed |-> TRUE, user_prompt |-> TRUE,
       source_text |-> t, source_pdf_path |-> f,
       max_kind |-> m.kind, max_videos |-> m.n] : t \in BOOLEAN, f \in BOOLEAN, m \in MaxArgs }

\* POST /generate with a JSON body
JsonRequests ==
    { [via |-> "json", well_formed |-> TRUE, user_prompt |-> u,
       source_text |-> t, source_pdf_path |-> FALSE,
       max_kind |-> m.kind, max_videos |-> m.n] : u \in BOOLEAN, t \in BOOLEAN, m \in MaxArgs }
    \cup { [NoRequest EXCEPT !.via = "json", !.well_formed = FALSE] }

\* POST /generate with a form; max_videos may be text that int() rejects
FormRequests ==
    { [via |-> "form", well_formed |-> TRUE, user_prompt |-> u,
       source_text |-> t, source_pdf_path |-> FALSE,
       max_kind |-> m.kind, max_videos |-> m.n] :
         u \in BOOLEAN, t \in BOOLEAN, m \in MaxArgs \cup { [kind |-> "bad", n |-> 0] } }

\* which of the paths generate_lectures checks exist
Trees ==
    [pdf : BOOLEAN, audio_template : BOOLEAN, video_template : BOOLEAN,
     manimations : BOOLEAN]

\* one request or one direct call
GenInit ==
    /\ PlaybackOff
    /\ AudioOff
    /\ ResolveOff
    /\ \E q \in DirectCalls \cup JsonRequests \cup FormRequests :
           /\ req = [r \in Reqs |-> IF r = 1 THEN q ELSE NoRequest]
           /\ gpc = [r \in Reqs |-> IF r # 1 THEN "off"
                                    ELSE IF q.via = "direct" THEN "validate"
                                    ELSE "received"]
    /\ tree \in Trees
    /\ audio_script = NoTag
    /\ video_script = NoTag
    /\ narration_wav = NoTag
    /\ plan = [r \in Reqs |-> {}]
    /\ video_count = [r \in Reqs |-> 0]
    /\ video_num = [r \in Reqs |-> 0]
    /\ generated_videos = [r \in Reqs |-> <<>>]
    /\ gerror = [r \in Reqs |-> ""]
    /\ steps = [r \in Reqs |-> <<>>]
    /\ proc = [r \in Reqs |-> NoProcess]
    /\ response = [r \in Reqs |-> NoResponse]

\* the requests of the concurrent runs: JSON bodies that pass every check
RaceRequests ==
    { q \in JsonRequests :
        /\ q.well_formed /\ q.user_prompt /\ q.source_text
        /\ (q.max_kind = "none" \/ q.max_videos = 1) }

\* two POST /generate requests handled at the same time, by two threads of the
\* server
RaceInit ==
    /\ PlaybackOff
    /\ AudioOff
    /\ ResolveOff
    /\ req \in [Reqs -> RaceRequests]
    /\ gpc = [r \in Reqs |-> "received"]
    /\ tree = [pdf |-> TRUE, audio_template |-> TRUE, video_template |-> TRUE,
               manimations |-> TRUE]
    /\ audio_script = NoTag
    /\ video_script = NoTag
    /\ narration_wav = NoTag
    /\ plan = [r \in Reqs |-> {}]
    /\ video_count = [r \in Reqs |-> 0]
    /\ video_num = [r \in Reqs |-> 0]
    /\ generated_videos = [r \in Reqs |-> <<>>]
    /\ gerror = [r \in Reqs |-> ""]
    /\ steps = [r \in Reqs |-> <<>>]
    /\ proc = [r \in Reqs |-> NoProcess]
    /\ response = [r \in Reqs |-> NoResponse]

\* generate: request.get_json() raises, or its result has no .get (the body
\* is not a JSON object)
ApiParseRaises(r) ==
    /\ gpc[r] = "received"
    /\ req[r].via = "json"
    /\ ~req[r].well_formed
    /\ gpc' = [gpc EXCEPT ![r] = "except"]
    /\ gerror' = [gerror EXCEPT ![r] = "Other"]
    /\ UNCHANGED <<req, tree, audio_script, video_script, narration_wav,
                   plan, video_count, video_num, generated_videos, steps,
                   proc, response>>
    /\ UNCHANGED <<vars, audioVars, resolveVars, listVars>>

\* generate: int(max_videos_str) raises ValueError
ApiParseBadInt(r) ==
    /\ gpc[r] = "received"
    /\ req[r].via = "form"
    /\ req[r].max_kind = "bad"
    /\ gpc' = [gpc EXCEPT ![r] = "except"]
    /\ gerror' = [gerror EXCEPT ![r] = "ValueError"]
    /\ UNCHANGED <<req, tree, audio_script, video_script, narration_wav,
                   plan, video_count, video_num, generated_videos, steps,
                   proc, response>>
    /\ UNCHANGED <<vars, audioVars, resolveVars, listVars>>

\* generate: the parameters are read from the JSON body or from the form
ApiParseOk(r) ==
    /\ gpc[r] = "received"
    /\ req[r].well_formed
    /\ req[r].max_kind # "bad"
    /\ gpc' = [gpc EXCEPT ![r] = "api_validate"]
    /\ UNCHANGED <<req, tree, audio_script, video_script, narration_wav,
                   plan, video_count, video_num, generated_videos, gerror,
                   steps, proc, response>>
    /\ UNCHANGED <<vars, audioVars, resolveVars, listVars>>

\* if not user_prompt: return jsonify(...), 400
ApiMissingPrompt(r) ==
    /\ gpc[r] = "api_validate"
    /\ ~req[r].user_prompt
    /\ gpc' = [gpc EXCEPT ![r] = "responded"]
    /\ response' = [response EXCEPT ![r] = Response(400, FALSE, 0)]
    /\ UNCHANGED <<req, tree, audio_script, video_script, narration_wav,
                   plan, video_count, video_num, generated_videos, gerror,
                   steps, proc>>
    /\ UNCHANGED <<vars, audioVars, resolveVars, listVars>>

\* if not source_pdf_path and not source_text: return jsonify(...), 400
ApiNoSource(r) ==
    /\ gpc[r] = "api_validate"
    /\ req[r].user_prompt
    /\ ~source_pdf_path(req[r])
    /\ ~req[r].source_text
    /\ gpc' = [gpc EXCEPT ![r] = "responded"]
    /\ response' = [response EXCEPT ![r] = Response(400, FALSE, 0)]
    /\ UNCHANGED <<req, tree, audio_script, video_script, narration_wav,
                   plan, video_count, video_num, generated_videos, gerror,
                   steps, proc>>
    /\ UNCHANGED <<vars, audioVars, resolveVars, listVars>>

\* video_paths = generate_lectures(...)   -- the call is made
ApiCallGenerate(r) ==
    /\ gpc[r] = "api_validate"
    /\ req[r].user_prompt
    /\ source_pdf_path(req[r]) \/ req[r].source_text
    /\ gpc' = [gpc EXCEPT ![r] = "validate"]
    /\ UNCHANGED <<req, tree, audio_script, video_script, narration_wav,
                   plan, video_count, video_num, generated_videos, gerror,
                   steps, proc, response>>
    /\ UNCHANGED <<vars, audioVars, resolveVars, listVars>>

\* generate_lectures: one of the input checks raises
ValidateRaises(r) ==
    /\ gpc[r] = "validate"
    /\ validate_inputs(req[r], tree) # ""
    /\ gpc' = [gpc EXCEPT ![r] = IF req[r].via = "direct" THEN "raised" ELSE "except"]
    /\ gerror' = [gerror EXCEPT ![r] = validate_inputs(req[r], tree)]
    /\ steps' = [steps EXCEPT ![r] = Append(@, Step(0, "validate", FALSE))]
    /\ UNCHANGED <<req, tree, audio_script, video_script, narration_wav,
                   plan, video_count, video_num, generated_videos, proc,
                   response>>
    /\ UNCHANGED <<vars, audioVars, resolveVars, listVars>>

\* generate_lectures: all input checks pass
ValidateOk(r) ==
    /\ gpc[r] = "validate"
    /\ validate_inputs(req[r], tree) = ""
    /\ gpc' = [gpc EXCEPT ![r] = "plan"]
    /\ steps' = [steps EXCEPT ![r] = Append(@, Step(0, "validate", TRUE))]
    /\ UNCHANGED <<req, tree, audio_script, video_script, narration_wav,
                   plan, video_count, video_num, generated_videos, gerror,
                   proc, response>>
    /\ UNCHANGED <<vars, audioVars, resolveVars, listVars>>

\* plan = generate_lecture_plan(...) raises; logged and raised again
PlanRaises(r) ==
    /\ gpc[r] = "plan"
    /\ gpc' = [gpc EXCEPT ![r] = IF req[r].via = "direct" THEN "raised" ELSE "except"]
    /\ gerror' = [gerror EXCEPT ![r] = "Other"]
    /\ steps' = [steps EXCEPT ![r] = Append(@, Step(0, "plan", FALSE))]
    /\ UNCHANGED <<req, tree, audio_script, video_script, narration_wav,
                   plan, video_count, video_num, generated_videos, proc,
                   response>>
    /\ UNCHANGED <<vars, audioVars, resolveVars, listVars>>

\* plan = generate_lecture_plan(...)
PlanOk(r) ==
    /\ gpc[r] = "plan"
    /\ \E s \in PlanTexts :
        /\ gpc' = [gpc EXCEPT ![r] = "parse"]
        /\ plan' = [plan EXCEPT ![r] = s]
        /\ steps' = [steps EXCEPT ![r] = Append(@, Step(0, "plan", TRUE))]
    /\ UNCHANGED <<req, tree, audio_script, video_script, narration_wav,
                   video_count, video_num, generated_videos, gerror, proc,
                   response>>
    /\ UNCHANGED <<vars, audioVars, resolveVars, listVars>>

\* parse_video_count: if not matches: raise ValueError
ParseRaises(r) ==
    /\ gpc[r] = "parse"
    /\ plan[r] = {}
    /\ gpc' = [gpc EXCEPT ![r] = IF req[r].via = "direct" THEN "raised" ELSE "except"]
    /\ gerror' = [gerror EXCEPT ![r] = "ValueError"]
    /\ UNCHANGED <<req, tree, audio_script, video_script, narration_wav,
                   plan, video_count, video_num, generated_videos, steps,
                   proc, response>>
    /\ UNCHANGED <<vars, audioVars, resolveVars, listVars>>

\* video_count = parse_video_count(plan), limited by max_videos;
\* generated_videos = []; the for loop starts
ParseOk(r) ==
    /\ gpc[r] = "parse"
    /\ plan[r] # {}
    /\ gpc' = [gpc EXCEPT ![r] = "loop"]
    /\ video_count' = [video_count EXCEPT ![r] = limit_video_count(parse_video_count(plan[r]), req[r])]
    /\ video_num' = [video_num EXCEPT ![r] = 1]
    /\ generated_videos' = [generated_videos EXCEPT ![r] = <<>>]
    /\ UNCHANGED <<req, tree, audio_script, video_script, narration_wav,
                   plan, gerror, steps, proc, response>>
    /\ UNCHANGED <<vars, audioVars, resolveVars, listVars>>

\* for video_num in range(1, video_count + 1): next video
LoopNext(r) ==
    /\ gpc[r] = "loop"
    /\ video_num[r] <= video_count[r]
    /\ gpc' = [gpc EXCEPT ![r] = "gen_audio"]
    /\ UNCHANGED <<req, tree, audio_script, video_script, narration_wav,
                   plan, video_count, video_num, generated_videos, gerror,
                   steps, proc, response>>
    /\ UNCHANGED <<vars, audioVars, resolveVars, listVars>>

\* the loop is exhausted: return generated_videos
LoopExit(r) ==
    /\ gpc[r] = "loop"
    /\ video_num[r] > video_count[r]
    /\ gpc' = [gpc EXCEPT ![r] = IF req[r].via = "direct" THEN "returned" ELSE "api_return"]
    /\ UNCHANGED <<req, tree, audio_script, video_script, narration_wav,
                   plan, video_count, video_num, generated_videos, gerror,
                   steps, proc, response>>
    /\ UNCHANGED <<vars, audioVars, resolveVars, listVars>>

\* audio_code = generate_audio_script(...) raises; logged and raised again
GenAudioRaises(r) ==
    /\ gpc[r] = "gen_audio"
    /\ gpc' = [gpc EXCEPT ![r] = IF req[r].via = "direct" THEN "raised" ELSE "except"]
    /\ gerror' = [gerror EXCEPT ![r] = "Other"]
    /\ steps' = [steps EXCEPT ![r] = Append(@, Step(video_num[r], "gen_audio", FALSE))]
    /\ UNCHANGED <<req, tree, audio_script, video_script, narration_wav,
                   plan, video_count, video_num, generated_videos, proc,
                   response>>
    /\ UNCHANGED <<vars, audioVars, resolveVars, listVars>>

\* audio_code = generate_audio_script(...)
GenAudioOk(r) ==
    /\ gpc[r] = "gen_audio"
    /\ gpc' = [gpc EXCEPT ![r] = "save_audio"]
    /\ steps' = [steps EXCEPT ![r] = Append(@, Step(video_num[r], "gen_audio", TRUE))]
    /\ UNCHANGED <<req, tree, audio_script, video_script, narration_wav,
                   plan, video_count, video_num, generated_videos, gerror,
                   proc, response>>
    /\ UNCHANGED <<vars, audioVars, resolveVars, listVars>>

\* the audio script saved but not run before the video steps
SaveAudioScriptSkipsRun(r) ==
    /\ gpc[r] = "save_audio"
    /\ audio_script' = <<r, video_num[r]>>
    /\ gpc' = [gpc EXCEPT ![r] = "gen_video"]
    /\ steps' = [steps EXCEPT ![r] = Append(@, Step(video_num[r], "save_audio", TRUE))]
    /\ UNCHANGED <<req, tree, video_script, narration_wav, plan, video_count,
                   video_num, generated_videos, gerror, proc, response>>
    /\ UNCHANGED <<vars, audioVars, resolveVars, listVars>>

\* save_script(strip_code_fences(audio_code), AUDIO_SCRIPT_PATH)
SaveAudioScript(r) ==
    /\ gpc[r] = "save_audio"
    /\ audio_script' = <<r, video_num[r]>>
    /\ gpc' = [gpc EXCEPT ![r] = "run_audio"]
    /\ steps' = [steps EXCEPT ![r] = Append(@, Step(video_num[r], "save_audio", TRUE))]
    /\ UNCHANGED <<req, tree, video_script, narration_wav, plan, video_count,
                   video_num, generated_videos, gerror, proc, response>>
    /\ UNCHANGED <<vars, audioVars, resolveVars, listVars>>

\* run_command(["python3", "ai_gen_audio.py"], ...): the subprocess starts and
\* loads the script that is at AUDIO_SCRIPT_PATH now
RunAudioStart(r) ==
    /\ gpc[r] = "run_audio"
    /\ gpc' = [gpc EXCEPT ![r] = "audio_running"]
    /\ steps' = [steps EXCEPT ![r] = Append(@, Step(video_num[r], "run_audio", TRUE))]
    /\ proc' = [proc EXCEPT ![r] = [script |-> audio_script, wav |-> NoTag]]
    /\ UNCHANGED <<req, tree, audio_script, video_script, narration_wav,
                   plan, video_count, video_num, generated_videos, gerror,
                   response>>
    /\ UNCHANGED <<vars, audioVars, resolveVars, listVars>>

\* subprocess.run without check=True: the exit code is not looked at
AudioExitsNonZeroIgnored(r) ==
    /\ gpc[r] = "audio_running"
    /\ gpc' = [gpc EXCEPT ![r] = "gen_video"]
    /\ steps' = [steps EXCEPT ![r] = Append(@, Step(video_num[r], "audio_exit", FALSE))]
    /\ UNCHANGED <<req, tree, audio_script, video_script, narration_wav,
                   plan, video_count, video_num, generated_videos, gerror,
                   proc, response>>
    /\ UNCHANGED <<vars, audioVars, resolveVars, listVars>>

\* the audio subprocess exits with a non-zero code: CalledProcessError,
\* raised on as RuntimeError
AudioExitsNonZero(r) ==
    /\ gpc[r] = "audio_running"
    /\ gpc' = [gpc EXCEPT ![r] = IF req[r].via = "direct" THEN "raised" ELSE "except"]
    /\ gerror' = [gerror EXCEPT ![r] = "RuntimeError"]
    /\ steps' = [steps EXCEPT ![r] = Append(@, Step(video_num[r], "audio_exit", FALSE))]
    /\ UNCHANGED <<req, tree, audio_script, video_script, narration_wav,
                   plan, video_count, video_num, generated_videos, proc,
                   response>>
    /\ UNCHANGED <<vars, audioVars, resolveVars, listVars>>

\* the audio subprocess exits with code 0: its main has written narration.wav
AudioExitsZero(r) ==
    /\ gpc[r] = "audio_running"
    /\ narration_wav' = proc[r].script
    /\ gpc' = [gpc EXCEPT ![r] = "gen_video"]
    /\ steps' = [steps EXCEPT ![r] = Append(@, Step(video_num[r], "audio_exit", TRUE))]
    /\ UNCHANGED <<req, tree, audio_script, video_script, plan, video_count,
                   video_num, generated_videos, gerror, proc, response>>
    /\ UNCHANGED <<vars, audioVars, resolveVars, listVars>>

\* video_code = generate_video_script(...) raises; logged and raised again
GenVideoRaises(r) ==
    /\ gpc[r] = "gen_video"
    /\ gpc' = [gpc EXCEPT ![r] = IF req[r].via = "direct" THEN "raised" ELSE "except"]
    /\ gerror' = [gerror EXCEPT ![r] = "Other"]
    /\ steps' = [steps EXCEPT ![r] = Append(@, Step(video_num[r], "gen_video", FALSE))]
    /\ UNCHANGED <<req, tree, audio_script, video_script, narration_wav,
                   plan, video_count, video_num, generated_videos, proc,
                   response>>
    /\ UNCHANGED <<vars, audioVars, resolveVars, listVars>>

\* video_code = generate_video_script(...)
GenVideoOk(r) ==
    /\ gpc[r] = "gen_video"
    /\ gpc' = [gpc EXCEPT ![r] = "save_video"]
    /\ steps' = [steps EXCEPT ![r] = Append(@, Step(video_num[r], "gen_video", TRUE))]
    /\ UNCHANGED <<req, tree, audio_script, video_script, narration_wav,
                   plan, video_count, video_num, generated_videos, gerror,
                   proc, response>>
    /\ UNCHANGED <<vars, audioVars, resolveVars, listVars>>

\* save_script(strip_code_fences(video_code), VIDEO_SCRIPT_PATH)
SaveVideoScript(r) ==
    /\ gpc[r] = "save_video"
    /\ video_script' = <<r, video_num[r]>>
    /\ gpc' = [gpc EXCEPT ![r] = "run_video"]
    /\ steps' = [steps EXCEPT ![r] = Append(@, Step(video_num[r], "save_video", TRUE))]
    /\ UNCHANGED <<req, tree, audio_script, narration_wav, plan, video_count,
                   video_num, generated_videos, gerror, proc, response>>
    /\ UNCHANGED <<vars, audioVars, resolveVars, listVars>>

\* run_command(["manimgl", "ai_gen_video.py", f"Video{video_num}", "-w"], ...):
\* the subprocess starts, loads the script that is at VIDEO_SCRIPT_PATH now and
\* its construct attaches the narration.wav that is there now
RenderStart(r) ==
    /\ gpc[r] = "run_video"
    /\ gpc' = [gpc EXCEPT ![r] = "rendering"]
    /\ steps' = [steps EXCEPT ![r] = Append(@, Step(video_num[r], "run_video", TRUE))]
    /\ proc' = [proc EXCEPT ![r] = [script |-> video_script, wav |-> narration_wav]]
    /\ UNCHANGED <<req, tree, audio_script, video_script, narration_wav,
                   plan, video_count, video_num, generated_videos, gerror,
                   response>>
    /\ UNCHANGED <<vars, audioVars, resolveVars, listVars>>

\* manimgl exits with a non-zero code: CalledProcessError, raised on as
\* RuntimeError
RenderExitsNonZero(r) ==
    /\ gpc[r] = "rendering"
    /\ gpc' = [gpc EXCEPT ![r] = IF req[r].via = "direct" THEN "raised" ELSE "except"]
    /\ gerror' = [gerror EXCEPT ![r] = "RuntimeError"]
    /\ steps' = [steps EXCEPT ![r] = Append(@, Step(video_num[r], "video_exit", FALSE))]
    /\ UNCHANGED <<req, tree, audio_script, video_script, narration_wav,
                   plan, video_count, video_num, generated_videos, proc,
                   response>>
    /\ UNCHANGED <<vars, audioVars, resolveVars, listVars>>

\* manimgl exits with code 0
RenderExitsZero(r) ==
    /\ gpc[r] = "rendering"
    /\ gpc' = [gpc EXCEPT ![r] = "find"]
    /\ steps' = [steps EXCEPT ![r] = Append(@, Step(video_num[r], "video_exit", TRUE))]
    /\ UNCHANGED <<req, tree, audio_script, video_script, narration_wav,
                   plan, video_count, video_num, generated_videos, gerror,
                   proc, response>>
    /\ UNCHANGED <<vars, audioVars, resolveVars, listVars>>

\* video_path = find_latest_video(video_num); appended when one is found;
\* the loop moves on
FindLatestVideo(r) ==
    /\ gpc[r] = "find"
    /\ \E found \in BOOLEAN :
        /\ gpc' = [gpc EXCEPT ![r] = "loop"]
        /\ video_num' = [video_num EXCEPT ![r] = @ + 1]
        /\ generated_videos' = [generated_videos EXCEPT ![r] = IF found THEN Append(@, video_num[r]) ELSE @]
    /\ UNCHANGED <<req, tree, audio_script, video_script, narration_wav,
                   plan, video_count, gerror, steps, proc, response>>
    /\ UNCHANGED <<vars, audioVars, resolveVars, listVars>>

\* return jsonify({"success": True, "videos": video_paths, "count": len(video_paths)}), 200
ApiRespondOk(r) ==
    /\ gpc[r] = "api_return"
    /\ gpc' = [gpc EXCEPT ![r] = "responded"]
    /\ response' = [response EXCEPT ![r] = Response(200, TRUE, Len(generated_videos[r]))]
    /\ UNCHANGED <<req, tree, audio_script, video_script, narration_wav,
                   plan, video_count, video_num, generated_videos, gerror,
                   steps, proc>>
    /\ UNCHANGED <<vars, audioVars, resolveVars, listVars>>

\* the except clauses of generate: FileNotFoundError 404, ValueError 400,
\* RuntimeError 500, any other Exception 500
ApiRespondError(r) ==
    /\ gpc[r] = "except"
    /\ gpc' = [gpc EXCEPT ![r] = "responded"]
    /\ response' = [response EXCEPT ![r] = Response(status_of(gerror[r]), FALSE, 0)]
    /\ UNCHANGED <<req, tree, audio_script, video_script, narration_wav,
                   plan, video_count, video_num, generated_videos, gerror,
                   steps, proc>>
    /\ UNCHANGED <<vars, audioVars, resolveVars, listVars>>


GenNext ==
    \/ \E r \in Reqs : ApiParseRaises(r)
    \/ \E r \in Reqs : ApiParseBadInt(r)
    \/ \E r \in Reqs : ApiParseOk(r)
    \/ \E r \in Reqs : ApiMissingPrompt(r)
    \/ \E r \in Reqs : ApiNoSource(r)
    \/ \E r \in Reqs : ApiCallGenerate(r)
    \/ \E r \in Reqs : ValidateRaises(r)
    \/ \E r \in Reqs : ValidateOk(r)
    \/ \E r \in Reqs : PlanRaises(r)
    \/ \E r \in Reqs : PlanOk(r)
    \/ \E r \in Reqs : ParseRaises(r)
    \/ \E r \in Reqs : ParseOk(r)
    \/ \E r \in Reqs : LoopNext(r)
    \/ \E r \in Reqs : LoopExit(r)
    \/ \E r \in Reqs : GenAudioRaises(r)
    \/ \E r \in Reqs : GenAudioOk(r)
    \/ \E r \in Reqs : SaveAudioScript(r)
    \/ \E r \in Reqs : RunAudioStart(r)
    \/ \E r \in Reqs : AudioExitsNonZero(r)
    \/ \E r \in Reqs : AudioExitsZero(r)
    \/ \E r \in Reqs : GenVideoRaises(r)
    \/ \E r \in Reqs : GenVideoOk(r)
    \/ \E r \in Reqs : SaveVideoScript(r)
    \/ \E r \in Reqs : RenderStart(r)
    \/ \E r \in Reqs : RenderExitsNonZero(r)
    \/ \E r \in Reqs : RenderExitsZero(r)
    \/ \E r \in Reqs : FindLatestVideo(r)
    \/ \E r \in Reqs : ApiRespondOk(r)
    \/ \E r \in Reqs : ApiRespondError(r)

GenSpec == GenInit /\ [][GenNext]_allVars

\* the steps of requests that pass the checks of generate and of
\* generate_lectures
RaceNext ==
    \/ \E r \in Reqs : ApiParseOk(r)
    \/ \E r \in Reqs : ApiCallGenerate(r)
    \/ \E r \in Reqs : ValidateOk(r)
    \/ \E r \in Reqs : PlanRaises(r)
    \/ \E r \in Reqs : PlanOk(r)
    \/ \E r \in Reqs : ParseRaises(r)
    \/ \E r \in Reqs : ParseOk(r)
    \/ \E r \in Reqs : LoopNext(r)
    \/ \E r \in Reqs : LoopExit(r)
    \/ \E r \in Reqs : GenAudioRaises(r)
    \/ \E r \in Reqs : GenAudioOk(r)
    \/ \E r \in Reqs : SaveAudioScript(r)
    \/ \E r \in Reqs : RunAudioStart(r)
    \/ \E r \in Reqs : AudioExitsNonZero(r)
    \/ \E r \in Reqs : AudioExitsZero(r)
    \/ \E r \in Reqs : GenVideoRaises(r)
    \/ \E r \in Reqs : GenVideoOk(r)
    \/ \E r \in Reqs : SaveVideoScript(r)
    \/ \E r \in Reqs : RenderStart(r)
    \/ \E r \in Reqs : RenderExitsNonZero(r)
    \/ \E r \in Reqs : RenderExitsZero(r)
    \/ \E r \in Reqs : FindLatestVideo(r)
    \/ \E r \in Reqs : ApiRespondOk(r)
    \/ \E r \in Reqs : ApiRespondError(r)

RaceSpec == RaceInit /\ [][RaceNext]_allVars

\* ------------------------------------------------------------------------
\* Properties
\* ------------------------------------------------------------------------
RECURSIVE SumSeq(_)
SumSeq(s) == IF s = <<>> THEN 0 ELSE s[Len(s)] + SumSeq(SubSeq(s, 1, Len(s) - 1))

\* total time waited so far
TotalWait == SumSeq(waits)

Timeline == scene = "NarratedTimelineScene"

\* the interval in front of beat i of the sorted timeline, i = Len + 1 for
\* the interval between the last beat and the end of the narration
Gap(i) ==
    (IF i <= Len(timeline) THEN timeline[i].t ELSE dur)
        - (IF i = 1 THEN 0 ELSE timeline[i - 1].t)

NoGapExceedsCap == \A i \in 1..(Len(timeline) + 1) : Gap(i) <= MAX_WAIT_CAP

AllBeatsWithinNarration == \A i \in 1..Len(beats) : 0 <= beats[i].t /\ beats[i].t <= dur

\* C1 as stated: the total time waited over one playback is at least the
\* narration duration, for every duration and schedule
C1_TotalCoversNarration == (Done /\ Timeline) => TotalWait >= dur

\* C1 amended: the total time waited over one playback is at least
\* min(narration duration, MAX_WAIT_CAP), and at least the narration duration
\* whenever no interval between consecutive timestamps exceeds MAX_WAIT_CAP
C1_TotalCoversCappedNarration ==
    (Done /\ Timeline) =>
        /\ TotalWait >= Min(dur, MAX_WAIT_CAP)
        /\ NoGapExceedsCap => TotalWait >= dur

C1_Witness ==
    /\ Done /\ Timeline
    /\ Len(beats) >= 2 /\ dur > 0
    /\ NoGapExceedsCap
    /\ TotalWait >= dur

\* C2: every wait issued during playback lies between 0 and MAX_WAIT_CAP, so
\* n beats wait at most (n+1) * MAX_WAIT_CAP in total; a large duration never
\* makes playback fail
C2_EveryWaitBounded ==
    /\ \A i \in 1..Len(waits) : 0 <= waits[i] /\ waits[i] <= MAX_WAIT_CAP
    /\ TotalWait <= (Len(timeline) + 1) * MAX_WAIT_CAP
    /\ (Failed /\ dur > MAX_WAIT_CAP) => raised # 0

C2_Witness ==
    /\ Done /\ Timeline
    /\ dur > MAX_WAIT_CAP
    /\ \E i \in 1..Len(waits) : waits[i] = MAX_WAIT_CAP /\ Gap(i) > MAX_WAIT_CAP

\* C3: actions are invoked in ascending timestamp order, and beats with
\* equal timestamps in the order build_timeline listed them
C3_AscendingStableOrder ==
    \A i, j \in 1..Len(invoked) :
        i < j =>
            \/ beats[invoked[i]].t < beats[invoked[j]].t
            \/ beats[invoked[i]].t = beats[invoked[j]].t /\ invoked[i] < invoked[j]

C3_Witness ==
    /\ Done
    /\ Len(beats) = 3
    /\ beats[1].t = 5 /\ beats[2].t = 1 /\ beats[3].t = 5
    /\ invoked = <<2, 1, 3>>

\* C4: the wait issued before a beat with timestamp t when the previous
\* timestamp is p is min(t - p, MAX_WAIT_CAP) if t >= p and 0 if t < p; it is
\* never negative and issuing it never fails
C4_BeatWaitClamp ==
    [][(pc = "loop" /\ idx <= Len(timeline)) =>
        /\ pc' = "waiting"
        /\ waits' = Append(waits,
                           IF timeline[idx].t >= t_prev
                           THEN Min(timeline[idx].t - t_prev, MAX_WAIT_CAP)
                           ELSE 0)
        /\ waits'[Len(waits')] >= 0]_vars

C4_Witness ==
    /\ pc = "waiting"
    /\ timeline[idx].t < t_prev
    /\ waits[Len(waits)] = 0

\* C5: when every timestamp lies in [0, narrationDuration] and no interval
\* exceeds MAX_WAIT_CAP, the waits of one playback sum to narrationDuration
C5_ExactCoverage ==
    (Done /\ Timeline /\ AllBeatsWithinNarration /\ NoGapExceedsCap) => TotalWait = dur

C5_Witness ==
    /\ Done /\ Timeline
    /\ dur = 10
    /\ Len(beats) = 2 /\ beats[1].t = 2 /\ beats[2].t = 4
    /\ waits = <<2, 2, 6>>

\* C6: with the narration artifact missing, playback fails with the
\* missing-narration error before the schedule is built, the sound attached,
\* any wait issued, any animation played or any action invoked
C6_MissingNarrationFailsFast ==
    ~narration.exists =>
        /\ pc \in {"Idle", "Failed"}
        /\ Failed => error = "MissingNarration"
        /\ buildCalls = 0
        /\ ~soundAttached
        /\ waits = <<>>
        /\ invoked = <<>>
        /\ plays = 0

C6_Witness ==
    /\ Failed /\ error = "MissingNarration"
    /\ ~narration.exists
    /\ Timeline /\ Len(beats) > 0
    /\ invoked = <<>>

\* C7 as stated: playback with zero beats invokes no action and waits
\* narrationDuration seconds in total
C7_EmptyWaitsNarration ==
    (Done /\ Timeline /\ beats = <<>>) => (invoked = <<>> /\ TotalWait = dur)

\* C7 amended: playback with zero beats invokes no action, issues one wait of
\* min(narrationDuration, MAX_WAIT_CAP) seconds, and reaches Done
C7_EmptyWaitsCappedNarration ==
    /\ [](( Done /\ Timeline /\ beats = <<>>) =>
            /\ invoked = <<>>
            /\ waits = << Min(dur, MAX_WAIT_CAP) >>
            /\ (dur <= MAX_WAIT_CAP => TotalWait = dur))
    /\ (Running /\ Timeline /\ beats = <<>>) ~> Done

C7_Witness ==
    /\ Done /\ Timeline
    /\ beats = <<>>
    /\ dur > 0
    /\ TotalWait = dur

\* C8: when the action of a beat fails, construct fails with that failure:
\* no later beat is invoked, the final wait is not issued, Done is not reached
C8_ActionFailurePropagates ==
    raised # 0 =>
        /\ Failed /\ error = "ActionFailure"
        /\ Len(invoked) = idx
        /\ invoked[Len(invoked)] = raised
        /\ timeline[idx].action = raised
        /\ Len(waits) = Len(invoked)

C8_Witness ==
    /\ raised # 0
    /\ Failed
    /\ idx >= 2 /\ idx < Len(timeline)

\* C9: when playback is Done every beat of the schedule has been invoked
\* exactly once and the final wait has been issued and has returned
C9_DoneMeansAllBeatsOnce ==
    (Done /\ Timeline) =>
        /\ Len(invoked) = Len(beats)
        /\ \A b \in 1..Len(beats) :
              Cardinality({i \in 1..Len(invoked) : invoked[i] = b}) = 1
        /\ Len(waits) = Len(beats) + 1

C9_Witness ==
    /\ Done /\ Timeline
    /\ Len(beats) >= 2
    /\ \E i, j \in 1..Len(beats) : i # j /\ beats[i].t = beats[j].t

\* C10: once playback runs with a known narration duration and every action
\* returns, playback eventually reaches Done
C10_PlaybackTerminates ==
    [](raised = 0) => (Running ~> Done)

C10_Witness ==
    /\ Done /\ Timeline
    /\ Len(invoked) >= 2
    /\ dur > MAX_WAIT_CAP
    /\ \E i \in 1..Len(beats) : beats[i].t > MAX_WAIT_CAP

ActionsStarted == Len(invoked)

ActionsFinished == (idx - 1) + (IF raised # 0 THEN 1 ELSE 0)

WaitsStarted == Len(waits)

WaitsFinished == Len(waits) - (IF pc \in {"waiting", "final_waiting"} THEN 1 ELSE 0)

\* C11: waits and actions strictly alternate in schedule order: action i starts
\* only after the wait for beat i has returned, the wait for beat i+1 starts
\* only after action i has finished, at most one action is in progress, and no
\* action starts while a wait is in progress
C11_WaitsAndActionsAlternate ==
    /\ [](Timeline =>
            /\ ActionsStarted - ActionsFinished \in {0, 1}
            /\ ActionsStarted <= WaitsFinished
            /\ WaitsStarted <= ActionsFinished + 1
            /\ \A k \in 1..Len(invoked) : invoked[k] = timeline[k].action)
    /\ [][Len(invoked') > Len(invoked) =>
            /\ WaitsFinished = WaitsStarted
            /\ ActionsFinished = ActionsStarted
            /\ WaitsStarted = Len(invoked')]_vars

C11_Witness ==
    /\ Timeline
    /\ pc = "waiting"
    /\ idx = 2
    /\ Len(invoked) = 1 /\ Len(waits) = 2

NonNegativeTimestamps == \A i \in 1..Len(beats) : beats[i].t >= 0

\* C12: for a schedule of beats with non-negative timestamps, t_prev is 0 when
\* the loop starts, equals beat i's timestamp after beat i, and never decreases
C12_PreviousTimestampMonotone ==
    /\ []((Timeline /\ NonNegativeTimestamps
              /\ pc \in {"loop", "waiting", "call", "acting", "final_waiting", "Done"}) =>
            t_prev = IF idx = 1 THEN 0 ELSE timeline[idx - 1].t)
    /\ [][(Timeline /\ NonNegativeTimestamps) => t_prev' >= t_prev]_vars

C12_Witness ==
    /\ Timeline /\ NonNegativeTimestamps
    /\ pc = "loop"
    /\ idx = 3
    /\ beats[1].t > beats[2].t
    /\ t_prev = beats[1].t

\* (nchannels, sampwidth, framerate) of a WAV file
Format3(w) == <<w.nchannels, w.sampwidth, w.framerate>>

\* the file behind entry p of wav_paths
InputFile(p) == disk[wav_paths[p]]

InputFrameCounts == [p \in 1..Len(wav_paths) |-> InputFile(p).nframes]

SameFormat == \A p, q \in 1..Len(wav_paths) : Format3(InputFile(p)) = Format3(InputFile(q))

\* concat_wavs has been called with the list wav_paths
InConcat ==
    \/ entry = "concat_wavs"
    \/ apc \in {"concat", "read", "write", "total", "Done"}
    \/ aerror \in {"EmptyInput", "FormatMismatch"}

ConcatReturned == apc \in {"total", "Done"}

\* C13: for a non-empty list of artifacts sharing sample rate, channel count
\* and sample width, whatever their frame counts, concat_wavs succeeds and the
\* track's frame count is the sum of the inputs' frame counts
C13_SharedFormatConcatSucceeds ==
    (InConcat /\ wav_paths # <<>> /\ SameFormat) =>
        /\ aerror = ""
        /\ ConcatReturned => Len(dest.frames) = SumSeq(InputFrameCounts)

\* C14: when the inputs do not all share sample rate, channel count and sample
\* width, concat_wavs fails with the format-mismatch error and the destination
\* is as it was before the call
C14_MismatchLeavesDestination ==
    /\ (InConcat /\ ~SameFormat) =>
          /\ apc \in {"concat", "read", "Failed"}
          /\ apc = "Failed" => aerror = "FormatMismatch"
    /\ aerror = "FormatMismatch" => dest = fs0.file

C14_Witness ==
    /\ aerror = "FormatMismatch"
    /\ ~SameFormat
    /\ rd >= 2
    /\ fs0.file = OldFile
    /\ dest = OldFile

\* C15: concat_wavs with an empty list fails with the empty-input error
\* without opening any artifact and without creating or changing the
\* destination or its parent directory
C15_EmptyInputFailsClean ==
    (InConcat /\ wav_paths = <<>>) =>
        /\ apc \in {"concat", "Failed"}
        /\ apc = "Failed" => aerror = "EmptyInput"
        /\ opened = 0
        /\ dest = fs0.file
        /\ entry = "concat_wavs" => outDir = fs0.dir

C15_Witness ==
    /\ entry = "concat_wavs"
    /\ aerror = "EmptyInput" /\ apc = "Failed"
    /\ ~fs0.dir /\ ~outDir /\ ~dest.exists

\* the lowest position whose format differs from the first artifact's
FirstOffender ==
    CHOOSE p \in 1..Len(wav_paths) :
        /\ Format3(InputFile(p)) # Format3(InputFile(1))
        /\ \A q \in 1..(p - 1) : Format3(InputFile(q)) = Format3(InputFile(1))

\* C16: when some artifacts have a format differing from the first one's, the
\* format-mismatch error names the first of them in input order
C16_ErrorNamesFirstOffender ==
    (/\ aerror = "FormatMismatch"
     /\ \E p \in 1..Len(wav_paths) : Format3(InputFile(p)) # Format3(InputFile(1))) =>
        errName = wav_paths[FirstOffender]

\* where the frames of input p start in the track
Offset(p) == SumSeq(SubSeq(InputFrameCounts, 1, p - 1))

\* C17: on success the track holds the frames of input 1, then those of
\* input 2, and so on, nothing else, and carries the inputs' shared format
C17_TrackIsInputsInOrder ==
    (InConcat /\ ConcatReturned) =>
        /\ dest.exists
        /\ \A p \in 1..Len(wav_paths) : Format3(dest) = Format3(InputFile(p))
        /\ Len(dest.frames) = SumSeq(InputFrameCounts)
        /\ \A p \in 1..Len(wav_paths) :
              \A c \in 1..InputFile(p).nframes :
                  dest.frames[Offset(p) + c] = <<wav_paths[p], c>>

C17_Witness ==
    /\ entry = "concat_wavs"
    /\ apc = "Done"
    /\ Len(wav_paths) >= 2
    /\ Len(dest.frames) >= 4

\* C18: resolveStarts returns a list as long as its input with starts[0] = 0
\* and starts[i] = starts[i-1] + durations[i-1], and the empty list for the
\* empty input; (2.0, 3.5, 1.0) gives (0.0, 2.0, 5.5)
C18_ResolveStarts ==
    rs_pc = "returned" =>
        /\ Len(rs_starts) = Len(rs_durations)
        /\ rs_durations # <<>> => rs_starts[1] = 0
        /\ \A i \in 2..Len(rs_durations) :
              rs_starts[i] = rs_starts[i - 1] + rs_durations[i - 1]
        /\ \A i \in 1..Len(rs_durations) :
              rs_starts[i] = SumSeq(SubSeq(rs_durations, 1, i - 1))
        /\ rs_durations = <<>> => rs_starts = <<>>

C18_Witness ==
    /\ rs_pc = "returned"
    /\ rs_durations = <<4, 7, 2>>
    /\ rs_starts = <<0, 4, 11>>

C20_ZeroRateIsMalformedAudio ==
    (narration.exists /\ narration.framerate = 0 /\ Failed) => error = "MalformedAudio"

\* ------------------------------------------------------------------------
\* tts_to_wav and main
\* ------------------------------------------------------------------------
\* the exceptions a tts_to_wav call raises
TtsErrors == {"MissingApiKey", "ProviderError", "ZeroDivisionError"}

\* the tts_to_wav calls main has made so far
TtsCalls ==
    Len(wav_paths) + (IF apc = "tts_written" \/ aerror \in TtsErrors THEN 1 ELSE 0)

\* C21: tts_to_wav sends at most one request per call; a failed request
\* ends the call and the run with the provider's error, is not sent again
\* and leaves no file for its segment (nor a narration.wav); without an API
\* key no request is sent at all.
C21_OneRequestNoRetry ==
    entry = "main" =>
        /\ requests <= TtsCalls
        /\ aerror = "ProviderError" =>
               /\ apc = "Failed"
               /\ requests = Len(wav_paths) + 1
               /\ Len(disk) = Len(wav_paths)
               /\ dest = fs0.file
        /\ aerror = "MissingApiKey" => (apc = "Failed" /\ requests = 0 /\ disk = <<>>)

C21_Witness ==
    /\ entry = "main"
    /\ aerror = "ProviderError"
    /\ requests = 2
    /\ Len(disk) = 1

\* concat_wavs has been called by main
ConcatCalled ==
    \/ apc \in {"concat", "read", "write", "total", "Done"}
    \/ aerror \in {"EmptyInput", "FormatMismatch"}

\* C29: main writes narration.wav only after the tts_to_wav call of every
\* segment has returned, and hands concat_wavs the segment files in the order
\* they were generated, so the track holds them in that order; when a
\* tts_to_wav call fails, concat_wavs is not called and narration.wav is as it
\* was before the run.
C29_NarrationAfterAllSegments ==
    entry = "main" =>
        /\ dest # fs0.file => (Len(wav_paths) = nseg /\ aerror \notin TtsErrors)
        /\ ConcatCalled => wav_paths = [p \in 1..nseg |-> p]
        /\ apc = "Done" =>
               \A a, b \in 1..Len(dest.frames) :
                   a < b => dest.frames[a][1] <= dest.frames[b][1]
        /\ aerror \in TtsErrors =>
               /\ ~ConcatCalled
               /\ opened = 0
               /\ Len(wav_paths) < nseg
               /\ dest = fs0.file

C29_Witness ==
    /\ entry = "main"
    /\ apc = "Done"
    /\ nseg >= 2
    /\ fs0.file = OldFile
    /\ Len(dest.frames) = 2 * nseg

\* ------------------------------------------------------------------------
\* Beats beyond the narration, and the list build_timeline returned
\* ------------------------------------------------------------------------
\* some beat of the schedule lies beyond the end of the narration
BeatBeyondNarration == \E i \in 1..Len(beats) : beats[i].t > dur

\* C27: a beat whose timestamp is greater than the narration duration is
\* still executed and does not fail playback: once running, playback only
\* fails through an action that raises, and when every action returns it
\* reaches Done with every beat called and a final wait of 0.
C27_BeatBeyondNarrationRuns ==
    /\ []((Timeline /\ Failed /\ soundAttached) => raised # 0)
    /\ ([](raised = 0) =>
           ((Running /\ Timeline /\ BeatBeyondNarration)
               ~> (/\ Done
                   /\ Len(invoked) = Len(beats)
                   /\ waits[Len(waits)] = 0)))

C27_Witness ==
    /\ Done /\ Timeline
    /\ dur > 0
    /\ BeatBeyondNarration
    /\ Len(invoked) = Len(beats)
    /\ \E i \in 1..Len(timeline) : timeline[i].t > dur /\ invoked[i] = timeline[i].action
    /\ waits[Len(waits)] = 0

\* C30: playback calls build_timeline once and walks a sorted copy taken
\* at that call: whatever an action does to the returned list afterwards,
\* the beats called are those of the list as it was returned, in ascending
\* stable order, each once.
C30_TimelineIsCopyOfReturnedList ==
    Timeline =>
        /\ buildCalls <= 1
        /\ (Done \/ Len(invoked) > 0) => buildCalls = 1
        /\ buildCalls = 1 => timeline = sorted(beats)
        /\ Len(invoked) <= Len(beats)
        /\ \A i \in 1..Len(invoked) : invoked[i] = sorted(beats)[i].action
        /\ Done => Len(invoked) = Len(beats)

C30_Witness ==
    /\ Done /\ Timeline
    /\ Len(beats) >= 2
    /\ returned # beats
    /\ sorted(returned) # sorted(beats)
    /\ Len(invoked) = Len(beats)

\* ------------------------------------------------------------------------
\* generate_lectures and POST /generate
\* ------------------------------------------------------------------------
\* the four steps of one video, each subprocess step with its start and exit
StepOrder ==
    <<"gen_audio", "save_audio", "run_audio", "audio_exit",
      "gen_video", "save_video", "run_video", "video_exit">>

\* the logged steps of request r that belong to a video
VideoSteps(r) == SelectSeq(steps[r], LAMBDA e : e.video > 0)

\* generate_lectures has returned its list to the caller
Returned(r) == gpc[r] \in {"returned", "api_return"} \/ response[r].success

\* generate_lectures has raised
Raised(r) == gerror[r] # "" /\ steps[r] # <<>>

\* C22: the videos are processed in ascending number from 1, each with the
\* steps generate audio script, (save,) run audio script, generate video
\* script, (save,) run ManimGL in that order; every step starts only after
\* the one before it has succeeded, so a render never starts before the audio
\* subprocess of its video has exited with 0, and no step of the next video
\* starts before the render has exited.
C22_StepsInOrder ==
    \A r \in Reqs :
        LET v == VideoSteps(r) IN
        /\ \A k \in 1..Len(v) :
               /\ v[k].video = ((k - 1) \div Len(StepOrder)) + 1
               /\ v[k].step = StepOrder[((k - 1) % Len(StepOrder)) + 1]
               /\ k < Len(v) => v[k].ok
        /\ gpc[r] = "rendering" =>
               \E k \in 1..Len(v) :
                   v[k] = Step(video_num[r], "audio_exit", TRUE)
        /\ Returned(r) => Len(v) = Len(StepOrder) * Max(0, video_count[r])

C22_Witness ==
    /\ gpc[1] = "returned"
    /\ video_count[1] = 2
    /\ Len(VideoSteps(1)) = 2 * Len(StepOrder)

\* C23: a step that fails (a subprocess exiting with a non-zero code, a plan
\* or script generation call raising, a plan without video numbers) is the
\* last step generate_lectures makes: it raises, makes no further step and
\* returns no list.
C23_FailureEndsPipeline ==
    /\ [](\A r \in Reqs :
            /\ \A k \in 1..Len(steps[r]) :
                   ~steps[r][k].ok =>
                       /\ k = Len(steps[r])
                       /\ gerror[r] # ""
                       /\ gpc[r] \in {"raised", "except", "responded"}
            /\ gerror[r] # "" => (~Returned(r) /\ gpc[r] \in {"raised", "except", "responded"}))
    /\ [][\A r \in Reqs :
            gerror[r] # "" =>
                /\ steps'[r] = steps[r]
                /\ gerror'[r] = gerror[r]
                /\ generated_videos'[r] = generated_videos[r]]_allVars

C23_Witness ==
    /\ gpc[1] = "raised"
    /\ gerror[1] = "RuntimeError"
    /\ steps[1][Len(steps[1])] = Step(2, "audio_exit", FALSE)
    /\ Len(generated_videos[1]) = 1

\* the number of videos request r has processed
Processed(r) == Len(VideoSteps(r)) \div Len(StepOrder)

\* the video count parse_video_count finds in the plan of request r
PlanCount(r) == parse_video_count(plan[r])

\* C24 as stated: a returning run has processed the plan's video count when
\* max_videos is None and min(plan count, max_videos) otherwise, and returns
\* at most one path per processed video.
C24_ProcessedIsMinOfPlanAndMax ==
    \A r \in Reqs :
        Returned(r) =>
            /\ Processed(r) = IF req[r].max_kind = "none" THEN PlanCount(r)
                              ELSE Min(PlanCount(r), req[r].max_videos)
            /\ Len(generated_videos[r]) <= Processed(r)

\* C24, amended: the number of videos processed is the plan's video count
\* when max_videos is None and min(plan count, max_videos) otherwise, or 0
\* when that number is negative; the returned list has at most one path per
\* processed video.
C24_ProcessedIsMinButNotNegative ==
    \A r \in Reqs :
        Returned(r) =>
            /\ Processed(r) = IF req[r].max_kind = "none" THEN PlanCount(r)
                              ELSE Max(0, Min(PlanCount(r), req[r].max_videos))
            /\ Len(generated_videos[r]) <= Processed(r)

C24_Witness ==
    /\ Returned(1)
    /\ PlanCount(1) = 2
    /\ req[1].max_kind = "int"
    /\ req[1].max_videos = 1
    /\ Processed(1) = 1
    /\ Len(generated_videos[1]) = 1

\* some path generate_lectures checks is missing
PathMissing(r) ==
    \/ source_pdf_path(req[r]) /\ ~tree.pdf
    \/ ~tree.audio_template
    \/ ~tree.video_template
    \/ ~tree.manimations

\* nothing of the pipeline has happened: no plan call, no script saved, no
\* subprocess run
NothingDone(r) ==
    /\ Len(steps[r]) = 1
    /\ plan[r] = {}
    /\ audio_script = NoTag
    /\ video_script = NoTag
    /\ narration_wav = NoTag
    /\ proc[r] = NoProcess

\* C25: called without source_pdf_path and source_text, generate_lectures
\* raises ValueError; called with a source but with the PDF, a template or the
\* manimations directory missing, it raises FileNotFoundError; in both cases
\* before the plan is generated, a script saved or a subprocess run.
C25_InputErrorsComeFirst ==
    \A r \in Reqs :
        steps[r] # <<>> =>
            /\ (~source_pdf_path(req[r]) /\ ~req[r].source_text) =>
                   (gerror[r] = "ValueError" /\ NothingDone(r) /\ ~Returned(r))
            /\ ((source_pdf_path(req[r]) \/ req[r].source_text) /\ PathMissing(r)) =>
                   (gerror[r] = "FileNotFoundError" /\ NothingDone(r) /\ ~Returned(r))

C25_Witness ==
    /\ req[1].via = "direct"
    /\ gpc[1] = "raised"
    /\ gerror[1] = "FileNotFoundError"
    /\ req[1].source_text /\ ~req[1].source_pdf_path
    /\ tree.audio_template /\ tree.video_template /\ ~tree.manimations

\* request r came in through POST /generate
ViaApi(r) == req[r].via \in {"json", "form"}

\* generate has read the parameters of request r
Parsed(r) == req[r].well_formed /\ req[r].max_kind # "bad"

\* generate_lectures was called for request r
Called(r) == steps[r] # <<>>

\* C26: a POST /generate request is answered once, with a status that
\* follows from the outcome: 400 and no call of generate_lectures when
\* user_prompt is missing or no source is there; 200, success true and the
\* number of returned paths as count when generate_lectures returns; 404,
\* 400, 500, 500 and success false when it raises FileNotFoundError,
\* ValueError, RuntimeError or anything else.  A handler that can take no
\* further step has answered.
C26_StatusFollowsOutcome ==
    \A r \in Reqs :
        ViaApi(r) =>
            /\ (gpc[r] = "responded") <=> (response[r] # NoResponse)
            /\ (~ENABLED GenNext) => gpc[r] = "responded"
            /\ gpc[r] = "responded" =>
                   /\ (Parsed(r) /\ ~req[r].user_prompt) =>
                          (response[r] = Response(400, FALSE, 0) /\ ~Called(r))
                   /\ (Parsed(r) /\ ~source_pdf_path(req[r]) /\ ~req[r].source_text) =>
                          (response[r] = Response(400, FALSE, 0) /\ ~Called(r))
                   /\ (Called(r) /\ gerror[r] = "") =>
                          response[r] = Response(200, TRUE, Len(generated_videos[r]))
                   /\ (Called(r) /\ gerror[r] = "FileNotFoundError") =>
                          response[r] = Response(404, FALSE, 0)
                   /\ (Called(r) /\ gerror[r] = "ValueError") =>
                          response[r] = Response(400, FALSE, 0)
                   /\ (Called(r) /\ gerror[r] \in {"RuntimeError", "Other"}) =>
                          response[r] = Response(500, FALSE, 0)
                   /\ response[r].success => (Called(r) /\ gerror[r] = "")

C26_Witness ==
    /\ req[1].via = "form"
    /\ gpc[1] = "responded"
    /\ gerror[1] = "FileNotFoundError"
    /\ response[1] = Response(404, FALSE, 0)
    /\ ~tree.pdf

\* C28: of two requests handled at the same time, each runs the audio
\* script it saved itself, and each render loads the video script and the
\* narration.wav of its own request and video.
C28_RequestsUseOwnFiles ==
    \A r \in Reqs :
        /\ gpc[r] = "audio_running" => proc[r].script = <<r, video_num[r]>>
        /\ gpc[r] = "rendering" =>
               /\ proc[r].script = <<r, video_num[r]>>
               /\ proc[r].wav = <<r, video_num[r]>>

====
